---- MODULE Spec2Model ----
(***************************************************************************)
(* Model of django-jsonrpc-2-0: the JSON-RPC 2.0 request pipeline of       *)
(* jsonrpc/service.py (JSONRPCService.__call__ and its helpers), the       *)
(* registry built by its metaclass, the type tags of jsonrpc/json_types.py,*)
(* the error classes of jsonrpc/errors.py, the method descriptors built by *)
(* jsonrpc/decorators.py and the signature parser of jsonrpc/signatures.py.*)
(***************************************************************************)
EXTENDS Integers, Sequences, FiniteSets, TLC

VARIABLES
    cfg,          \* the service instance: debug, can_get, http_errors, provide_request
    rpc_methods,  \* the class's registry: RPC name -> descriptor
    pc,           \* position of the call inside __call__ / _dispatch
    request,      \* the HTTP request being handled
    json_req,     \* the decoded envelope
    rid,          \* the request id kept by __call__
    method,       \* the value of the "method" field kept by __call__
    params,       \* the params kept by __call__, then the validated params
    hook,         \* what _validate_extra did for this call
    trace,        \* the stages this call has entered, in order
    calls,        \* the handler invocations of this call, in order
    response,     \* the HttpResponse returned by __call__
    raised,       \* the exception that left __call__
    vdefined,     \* _valid_params on its own: the declared params
    vparams,      \* _valid_params on its own: the supplied params
    vresult,      \* _valid_params on its own: what it returned or raised
    signature,    \* jrpc on its own: the signature text given to the decorator
    decorated,    \* jrpc on its own: the decorated method, or what jrpc raised
    classes,      \* the service classes defined so far: name -> bases, mro, rpc_methods
    parked        \* the calls of other threads that are not running now

vars == <<cfg, rpc_methods, pc, request, json_req, rid, method, params, hook,
          trace, calls, response, raised, vdefined, vparams, vresult,
          signature, decorated, classes, parked>>

pipevars == <<cfg, rpc_methods, pc, request, json_req, rid, method, params, hook,
              trace, calls, response, raised>>

valvars == <<vdefined, vparams, vresult>>

defvars == <<signature, decorated, classes>>

----------------------------------------------------------------------------
(* Bounds of the model.                                                    *)

\* Longest list of declared params drawn for _valid_params.
MaxDeclared == 2

\* Longest list of supplied positional params drawn for _valid_params.
MaxSupplied == 3

----------------------------------------------------------------------------
(* Decoded JSON values. t is the Python type of the value json.loads       *)
(* returns, v tells values of one type apart.                              *)

JV(t, v) == [t |-> t, v |-> v]

\* A key that is not in a dict, or an index that is not in a list.
Absent == JV("absent", "")

JNull == JV("NoneType", "null")
JTrue == JV("bool", "true")
JInt(v) == JV("int", v)
JLong == JV("long", "18446744073709551616")
JFloat == JV("float", "1.5")
JStr(v) == JV("unicode", v)
JArr == JV("list", "[]")
JObj == JV("dict", "{}")

\* The parameter names the model uses, in declaration order, and one more key.
ParamNames == <<"a", "b", "x">>

Keys == {"a", "b", "x", "zz"}

EmptyMap == [k \in Keys |-> Absent]

\* The value of a "params" field: a list, a dict or anything else.
ListParams(s) == [t |-> "list", v |-> "", seq |-> s, map |-> EmptyMap]

DictParams(m) == [t |-> "dict", v |-> "", seq |-> <<>>, map |-> m]

ScalarParams(j) == [t |-> j.t, v |-> j.v, seq |-> <<>>, map |-> EmptyMap]

NoParams == ScalarParams(Absent)

----------------------------------------------------------------------------
(* jsonrpc/errors.py                                                       *)

\* No message or details argument given to an exception's constructor.
None == "None"

Details(text, param, tag) == [text |-> text, param |-> param, tag |-> tag]

NoDetails == Details(None, "", "")

ErrorCode(kind) ==
    CASE kind = "ParseError" -> -32700
      [] kind = "InvalidRequestError" -> -32600
      [] kind = "MethodNotFoundError" -> -32601
      [] kind = "InvalidParamsError" -> -32602
      [] kind = "InternalError" -> -32603
      [] kind = "ServerError" -> -32099
      [] OTHER -> -32603

ErrorMessage(kind) ==
    CASE kind = "ParseError" -> "Parse error"
      [] kind = "InvalidRequestError" -> "Invalid request"
      [] kind = "MethodNotFoundError" -> "Method not found"
      [] kind = "InvalidParamsError" -> "Invalid params"
      [] kind = "InternalError" -> "Internal error"
      [] OTHER -> "Server error"

ErrorHttpStatus(kind) ==
    CASE kind = "InvalidRequestError" -> 400
      [] kind = "MethodNotFoundError" -> 404
      [] OTHER -> 500

\* The class attribute ``details``; JSONRPCError, InvalidParamsError and
\* ServerError have none.
ErrorDetails(kind) ==
    CASE kind = "ParseError" -> Details("Invalid JSON was received by the server", "", "")
      [] kind = "InvalidRequestError" -> Details("The JSON sent is not a valid Request object", "", "")
      [] kind = "MethodNotFoundError" -> Details("The method does not exist / is not available", "", "")
      [] kind = "InternalError" -> Details("Internal JSON-RPC error", "", "")
      [] OTHER -> NoDetails

\* JSONRPCError.__init__(message, details)
JSONRPCError(kind, message, details) ==
    [rpc |-> TRUE,
     kind |-> kind,
     code |-> ErrorCode(kind),
     message |-> IF message # None THEN message ELSE ErrorMessage(kind),
     details |-> IF details # NoDetails THEN details ELSE ErrorDetails(kind),
     has_status |-> TRUE,
     http_status |-> ErrorHttpStatus(kind)]

\* An exception that is not a JSONRPCError: it has no code, details or
\* http_status attribute.
PyException(kind, message) ==
    [rpc |-> FALSE,
     kind |-> kind,
     code |-> 0,
     message |-> message,
     details |-> NoDetails,
     has_status |-> FALSE,
     http_status |-> 0]

NoException == PyException("", "")

----------------------------------------------------------------------------
(* jsonrpc/json_types.py                                                   *)

TypeTags == {"bit", "num", "str", "arr", "obj", "nil", "any"}

\* JSONType.json_types: the members of each tuple. "None" is the object
\* None, which is not the type of None ("NoneType").
json_types(key) ==
    CASE key = "bit" -> {"bool"}
      [] key = "num" -> {"float", "int", "Decimal"}
      [] key = "str" -> {"basestring", "str", "unicode"}
      [] key = "arr" -> {"list"}
      [] key = "obj" -> {"dict"}
      [] key = "nil" -> {"None"}
      [] key = "any" -> {"bool", "float", "int", "Decimal", "str", "unicode",
                         "list", "dict", "None"}

\* JSONType(type_key) == other
JSONTypeEq(type_key, other) == other \in json_types(type_key)

\* JSONType.by_python_type: the tag found, or "ValueError".
by_python_type(p_type) ==
    IF \E key \in TypeTags : key # "any" /\ p_type \in json_types(key)
    THEN CHOOSE key \in TypeTags : key # "any" /\ p_type \in json_types(key)
    ELSE "ValueError"

\* isinstance(value, (int, basestring)) for a decoded JSON value: bool is a
\* subclass of int, unicode of basestring; long is not a subclass of int.
IsIntOrBasestring(j) == j.t \in {"int", "bool", "unicode", "str"}

\* isinstance(value, basestring)
IsBasestring(j) == j.t \in {"unicode", "str"}

----------------------------------------------------------------------------
(* jsonrpc/decorators.py and the metaclass of jsonrpc/service.py           *)

Param(name, type, optional) == [name |-> name, type |-> type, optional |-> optional]

\* What a decorated Python method does when it is called: whether its
\* signature has the ``request`` argument, and what its body does.
Returning(takes_request, result) ==
    [takes_request |-> takes_request, does |-> "return", result |-> result,
     exc |-> NoException]

Raising(takes_request, exc) ==
    [takes_request |-> takes_request, does |-> "raise", result |-> JNull,
     exc |-> exc]

\* The body of JSONRPCService.describe, which reads the registry of the
\* service it is called on.
Describing(takes_request) ==
    [takes_request |-> takes_request, does |-> "describe", result |-> JObj,
     exc |-> NoException]

\* jrpc(signature, safe, describe)(method): the attributes the decorator
\* sets, which functools.wraps copies to the wrapper that is registered.
jrpc(name, rpc_params, return_type, safe, describe, handler) ==
    [rpc_method_name |-> name,
     rpc_params |-> rpc_params,
     rpc_safe |-> safe,
     describe |-> describe,
     return_type |-> return_type,
     handler |-> handler]

\* dict.update
DictUpdate(d, other) ==
    [k \in (DOMAIN d) \cup (DOMAIN other) |->
        IF k \in DOMAIN other THEN other[k] ELSE d[k]]

RECURSIVE UpdateFromBases(_, _, _)
\* ``for base in bases: dct['rpc_methods'].update(base.rpc_methods)``
UpdateFromBases(d, bases, i) ==
    IF i > Len(bases) THEN d
    ELSE UpdateFromBases(DictUpdate(d, bases[i]), bases, i + 1)

\* As __new__ would be if it registered the members of the class body
\* first and updated from the bases afterwards.
MetaNewBasesLast(bases, members) ==
    UpdateFromBases([n \in {m.rpc_method_name : m \in members} |->
                        CHOOSE m \in members : m.rpc_method_name = n],
                    bases, 1)

\* JSONRPCServiceMeta.__new__: bases is the list of the bases' rpc_methods,
\* members the decorated members of the class body.
MetaNew(bases, members) ==
    DictUpdate(UpdateFromBases(<<>>, bases, 1),
               [n \in {m.rpc_method_name : m \in members} |->
                   CHOOSE m \in members : m.rpc_method_name = n])

\* JSONRPCService.describe, declared with jrpc('system.describe() -> <obj>')
\* as ``def describe(self, request)``.
DescribeMethod ==
    jrpc("system.describe", <<>>, "obj", FALSE, TRUE, Describing(TRUE))

\* rpc_methods of JSONRPCService itself.
BaseServiceMethods == MetaNew(<<>>, {DescribeMethod})

\* A fault a handler raises on purpose, and one it does not expect.
QuotaError == JSONRPCError("ServerError", "Quota exceeded", Details("quota", "", ""))

ValueError == PyException("ValueError", "boom")

(* A service class of the kind the README shows:                           *)
(*   add(a=<num>, b=<num>?) -> <num>                                       *)
(*   echo(x=<any>) -> <any>                  declared safe=True            *)
(*   fail() -> <nil>                         raises ServerError            *)
(*   boom() -> <nil>                         raises ValueError             *)
(* Its methods take ``request`` exactly when the class sets                *)
(* provide_request.                                                        *)
ServiceMembers(provide_request) ==
    {jrpc("add", <<Param("a", "num", FALSE), Param("b", "num", TRUE)>>, "num",
          FALSE, TRUE, Returning(provide_request, JInt("sum"))),
     jrpc("echo", <<Param("x", "any", FALSE)>>, "any",
          TRUE, TRUE, Returning(provide_request, JStr("echo"))),
     jrpc("fail", <<>>, "nil",
          FALSE, FALSE, Raising(provide_request, QuotaError)),
     jrpc("boom", <<>>, "nil",
          FALSE, TRUE, Raising(provide_request, ValueError))}

ServiceMethods(provide_request) ==
    MetaNew(<<BaseServiceMethods>>, ServiceMembers(provide_request))

----------------------------------------------------------------------------
(* JSONRPCService._valid_params                                            *)

\* What a function did: returned a value or raised an exception.
Return(value) == [ok |-> TRUE, value |-> value, exc |-> NoException]

Raise(exc) == [ok |-> FALSE, value |-> NoParams, exc |-> exc]

RequiredError(defined) ==
    JSONRPCError("InvalidParamsError", None,
                 Details("Parameter is required, but was not provided",
                         defined.name, ""))

TypeError(defined) ==
    JSONRPCError("InvalidParamsError", None,
                 Details("param should be of type", defined.name, defined.type))

\* As the loop body would be if it followed JSON-RPC 1.1 and replaced every
\* param that is not supplied with nil.
CheckParamNilForMissing(defined, provided) ==
    LET value == IF provided = Absent THEN JNull ELSE provided
    IN  IF defined.type \notin TypeTags
        THEN Raise(PyException("ValueError", "Invalid key provided"))
        ELSE IF ~JSONTypeEq(defined.type, value.t)
             THEN IF (defined.optional \/ provided = Absent) /\ value = JNull
                  THEN Return(ScalarParams(value))
                  ELSE Raise(TypeError(defined))
             ELSE Return(ScalarParams(value))

\* The body of both loops for one declared param; provided is Absent when
\* the lookup raised IndexError or KeyError. Gives the value to keep, or the
\* exception raised.
CheckParam(defined, provided) ==
    IF provided = Absent /\ ~defined.optional
    THEN Raise(RequiredError(defined))
    ELSE LET value == IF provided = Absent THEN JNull ELSE provided
         IN  IF defined.type \notin TypeTags
             THEN Raise(PyException("ValueError", "Invalid key provided"))
             ELSE IF ~JSONTypeEq(defined.type, value.t)
                  THEN IF defined.optional /\ value = JNull
                       THEN Return(ScalarParams(value))
                       ELSE Raise(TypeError(defined))
                  ELSE Return(ScalarParams(value))

RECURSIVE ValidList(_, _, _, _)
\* The loop over enumerate(method.rpc_params) for list params.
ValidList(rpc_params, seq, idx, params_list) ==
    IF idx > Len(rpc_params) THEN Return(ListParams(params_list))
    ELSE LET defined == rpc_params[idx]
             provided == IF idx <= Len(seq) THEN seq[idx] ELSE Absent
             r == CheckParam(defined, provided)
         IN  IF ~r.ok THEN r
             ELSE ValidList(rpc_params, seq, idx + 1,
                            Append(params_list, JV(r.value.t, r.value.v)))

RECURSIVE ValidDict(_, _, _, _)
\* The loop over method.rpc_params for dict params.
ValidDict(rpc_params, map, idx, params_dict) ==
    IF idx > Len(rpc_params) THEN Return(DictParams(params_dict))
    ELSE LET defined == rpc_params[idx]
             r == CheckParam(defined, map[defined.name])
         IN  IF ~r.ok THEN r
             ELSE ValidDict(rpc_params, map, idx + 1,
                            [params_dict EXCEPT ![defined.name] =
                                JV(r.value.t, r.value.v)])

\* As _valid_params would be if the dict loop filled in the supplied dict
\* instead of a new one.
ValidParamsKeepingExtras(rpc_params, p) ==
    IF p.t = "list" THEN ValidList(rpc_params, p.seq, 1, <<>>)
    ELSE IF p.t = "dict" THEN ValidDict(rpc_params, p.map, 1, p.map)
    ELSE Raise(JSONRPCError("InvalidParamsError", None,
               Details("The params argument must be an array or object", "", "")))

\* JSONRPCService._valid_params(method, params), given method.rpc_params.
ValidParams(rpc_params, p) ==
    IF p.t = "list" THEN ValidList(rpc_params, p.seq, 1, <<>>)
    ELSE IF p.t = "dict" THEN ValidDict(rpc_params, p.map, 1, EmptyMap)
    ELSE Raise(JSONRPCError("InvalidParamsError", None,
               Details("The params argument must be an array or object", "", "")))

----------------------------------------------------------------------------
(* The HTTP request and the envelope it carries.                           *)

\* The value json.loads returns: a dict with its four fields (Absent for a
\* key it does not have), or something that is not a dict.
Envelope(id, jsonrpc, m, p) ==
    [is_dict |-> TRUE, id |-> id, jsonrpc |-> jsonrpc, method |-> m, params |-> p]

NotADict ==
    [is_dict |-> FALSE, id |-> Absent, jsonrpc |-> Absent, method |-> Absent,
     params |-> NoParams]

\* body: "missing" (a GET without the ``json`` argument), "empty" (an empty
\* ``json`` argument), "malformed" (text json.loads rejects) or "json".
HttpRequest(http_method, ajax, body, json) ==
    [method |-> http_method, ajax |-> ajax, body |-> body, json |-> json]

NoRequest == HttpRequest("", FALSE, "missing", NotADict)

----------------------------------------------------------------------------
(* The stages of JSONRPCService.__call__                                   *)

InvalidRequest(text) == JSONRPCError("InvalidRequestError", None, Details(text, "", ""))

\* JSONRPCService._get_json_req
GetJsonReq(req) ==
    IF req.method = "GET" THEN
        IF req.body = "missing"
        THEN Raise(InvalidRequest("In a GET request, JSON must be provided in a URL argument named json"))
        ELSE IF req.body = "empty"
        THEN Raise(JSONRPCError("InvalidRequestError",
                                "The json URL argument cannot be empty", NoDetails))
        ELSE IF req.body = "malformed"
        THEN Raise(JSONRPCError("ParseError", None, NoDetails))
        ELSE IF ~req.json.is_dict
        THEN Raise(InvalidRequest("The JSON provided must be an object"))
        ELSE Return(req.json)
    ELSE IF req.method = "POST" THEN
        IF req.body # "json"
        THEN Raise(JSONRPCError("ParseError", None, NoDetails))
        ELSE IF ~req.json.is_dict
        THEN Raise(InvalidRequest("The JSON provided must be an object"))
        ELSE Return(req.json)
    ELSE Raise(InvalidRequest("Invalid request method. Method must be GET or POST"))

\* JSONRPCService._valid_jsonrpc_id
ValidJsonrpcId(j) ==
    IF j.id = Absent
    THEN Raise(InvalidRequest("A request id is required"))
    ELSE IF ~IsIntOrBasestring(j.id)
    THEN LET json_type == by_python_type(j.id.t)
         IN  IF json_type = "ValueError"
             THEN Raise(PyException("ValueError", "is not a valid JSON type"))
             ELSE Raise(JSONRPCError("InvalidRequestError", None,
                        Details("Request id must be a str or int, not", "", json_type)))
    ELSE IF IsBasestring(j.id) /\ j.id.v = ""
    THEN Raise(InvalidRequest("The request id cannot be an empty string"))
    ELSE Return(j.id)

\* JSONRPCService.jsonrpc_version
jsonrpc_version == JStr("2.0")

\* JSONRPCService._validate_jsonrpc_verion
ValidateJsonrpcVersion(j) ==
    IF j.jsonrpc = Absent
    THEN Raise(InvalidRequest("jsonrpc argument required"))
    ELSE IF ~(j.jsonrpc = jsonrpc_version)
    THEN Raise(InvalidRequest("jsonrpc argument must be exactly 2.0"))
    ELSE Return(JNull)

\* JSONRPCService._valid_jsonrpc_method
ValidJsonrpcMethod(j) ==
    IF j.method = Absent
    THEN Raise(InvalidRequest("method argument required"))
    ELSE IF j.method.t \notin {"unicode", "str"}
    THEN Raise(InvalidRequest("The method argument must be a string"))
    ELSE Return(j.method)

\* As _valid_jsonrpc_params would be if it left the check of the params to
\* _dispatch.
ValidJsonrpcParamsUnchecked(j) == Return(j.params)

\* JSONRPCService._valid_jsonrpc_params
ValidJsonrpcParams(j) ==
    IF j.params = NoParams
    THEN Raise(InvalidRequest("params argument required, even when a method doesn't require any params"))
    ELSE IF j.params.t \notin {"dict", "list"}
    THEN Raise(JSONRPCError("InvalidParamsError", None,
               Details("params argument must be an array or an object", "", "")))
    ELSE Return(j.params)

\* What an application's override of _validate_extra may do: nothing (as
\* the method of JSONRPCService itself), raise a ServerError as its
\* docstring asks, or fail with some other exception.
HookOutcomes ==
    {Return(NoParams), Raise(QuotaError), Raise(PyException("KeyError", "quota table"))}

\* _dispatch: ``self.methods[method_name]``
LookupMethod(methods, method_name) ==
    IF method_name \in DOMAIN methods
    THEN Return(methods[method_name])
    ELSE Raise(JSONRPCError("MethodNotFoundError", None,
               Details("Method not found", method_name, "")))

\* _dispatch: the test that bars a method from GET requests.
GetRefused(http_method, can_get, desc) == http_method = "GET" /\ ~can_get

GetGate(http_method, can_get, desc) ==
    IF GetRefused(http_method, can_get, desc)
    THEN Raise(JSONRPCError("MethodNotFoundError", None,
               Details("Method was either not found, or is not available via GET requests",
                       desc.rpc_method_name, "")))
    ELSE Return(desc)

\* _dispatch: how the method is called with the validated params.
CallOf(desc, provide_request, validated) ==
    [name |-> desc.rpc_method_name,
     style |-> IF validated.t = "dict" THEN "kwargs" ELSE "args",
     with_request |-> provide_request,
     args |-> validated.seq,
     kwargs |-> validated.map]

\* method.description, set by the decorator.
Description(desc) ==
    [name |-> desc.rpc_method_name,
     params |-> desc.rpc_params,
     return |-> desc.return_type]

\* JSONRPCService.proc_descriptions; the order of the list is the order of
\* the dict, so the descriptions are kept as a set.
proc_descriptions(methods) ==
    {Description(methods[n]) : n \in {k \in DOMAIN methods : methods[k].describe}}

\* The dict JSONRPCService.describe returns; the service_* attributes are
\* those of the class, which sets only sdversion.
DescribeBody(methods) ==
    [t |-> "dict",
     v |-> "service description",
     sdversion |-> "1.0",
     name |-> None,
     id |-> None,
     version |-> None,
     summary |-> None,
     help |-> None,
     address |-> None,
     procs |-> proc_descriptions(methods)]

\* The call itself: Python raises TypeError when the arguments passed do
\* not fit the method's signature, else the method's body runs. methods is
\* the registry of the service the method is called on.
CallHandler(desc, call, methods) ==
    IF desc.handler.takes_request # call.with_request
    THEN Raise(PyException("TypeError", "wrong number of arguments"))
    ELSE IF desc.handler.does = "raise"
    THEN Raise(desc.handler.exc)
    ELSE IF desc.handler.does = "describe"
    THEN Return(DescribeBody(methods))
    ELSE Return(desc.handler.result)

----------------------------------------------------------------------------
(* JSONRPCService._error_dict and JSONRPCService._response                 *)

NoErrorDict == [code |-> 0, message |-> "", details |-> NoDetails, traceback |-> FALSE]

\* As _error_dict would be if it wrapped every exception as InternalError.
ErrorDictAlwaysInternal(debug, ex) ==
    LET e == JSONRPCError("InternalError", None,
                          Details("An internal error has occurred", "", ""))
    IN  [code |-> e.code,
         message |-> e.message,
         details |-> e.details,
         traceback |-> debug]

\* As _error_dict would be if it put the message of an unexpected exception
\* in the details of the InternalError.
ErrorDictLeakingMessage(debug, ex) ==
    LET e == IF ex.rpc THEN ex
             ELSE JSONRPCError("InternalError", None, Details(ex.message, "", ""))
    IN  [code |-> e.code,
         message |-> e.message,
         details |-> e.details,
         traceback |-> debug]

\* JSONRPCService._error_dict
ErrorDict(debug, ex) ==
    LET e == IF ex.rpc THEN ex
             ELSE JSONRPCError("InternalError", None,
                               Details("An internal error has occurred", "", ""))
    IN  [code |-> e.code,
         message |-> e.message,
         details |-> e.details,
         traceback |-> debug]

\* As _response would be if it did not look at http_errors.
ErrorStatusAlwaysFromError(http_errors, ex) ==
    IF ex.has_status THEN ex.http_status ELSE 500

\* _response: the HTTP status of an error response.
ErrorStatus(http_errors, ex) ==
    IF http_errors
    THEN IF ex.has_status THEN ex.http_status ELSE 500
    ELSE 200

\* As _response would be if an error response did not carry the rid.
ErrorResponseWithoutRid(c, ex, id) ==
    [keys |-> {"id", "jsonrpc", "error"} \cup (IF c.debug THEN {"debug"} ELSE {}),
     id |-> JNull,
     jsonrpc |-> jsonrpc_version,
     error |-> ErrorDict(c.debug, ex),
     result |-> JNull,
     status |-> ErrorStatus(c.http_errors, ex)]

\* _response(ex=ex, rid=rid)
ErrorResponse(c, ex, id) ==
    [keys |-> {"id", "jsonrpc", "error"} \cup (IF c.debug THEN {"debug"} ELSE {}),
     id |-> id,
     jsonrpc |-> jsonrpc_version,
     error |-> ErrorDict(c.debug, ex),
     result |-> JNull,
     status |-> ErrorStatus(c.http_errors, ex)]

\* _response(result=result, rid=rid)
ResultResponse(c, result, id) ==
    [keys |-> {"id", "jsonrpc", "result"} \cup (IF c.debug THEN {"debug"} ELSE {}),
     id |-> id,
     jsonrpc |-> jsonrpc_version,
     error |-> NoErrorDict,
     result |-> result,
     status |-> 200]

NoResponse ==
    [keys |-> {}, id |-> JNull, jsonrpc |-> jsonrpc_version, error |-> NoErrorDict,
     result |-> JNull, status |-> 0]

\* __call__: ``if self.debug and not request.is_ajax(): if not
\* isinstance(ex, JSONRPCError): raise``
Reraises(c, req, ex) == c.debug /\ ~req.ajax /\ ~ex.rpc

----------------------------------------------------------------------------
(* jsonrpc/signatures.py and the jrpc decorator of jsonrpc/decorators.py.  *)
(* A signature text is kept as what the two regular expressions see in it: *)
(* whether SIG_RE matches and its groups, and for each piece of            *)
(* ``args.split(', ')`` whether ARG_RE matches and its groups.             *)

\* One piece of ``args.split(', ')``. form is "ok" when ARG_RE matches it.
ArgText(form, name, type, optional) ==
    [form |-> form, name |-> name, type |-> type, optional |-> optional]

MalformedArg == ArgText("bad", "", "", FALSE)

\* A signature text. form is "ok" when SIG_RE matches it, "callable" when
\* the decorator was given a function in place of a text.
SignatureText(form, name, args, rtype) ==
    [form |-> form, name |-> name, args |-> args, rtype |-> rtype]

NoSignature == SignatureText("bad", "", <<>>, "")

SignatureSyntaxError == PyException("ValueError", "Method signature syntax is incorrect.")

ParamsSyntaxError ==
    PyException("ValueError", "Method signature params syntax is incorrect")

ParamsOrderError ==
    PyException("ValueError", "Required params must come before optional params")

ReturnTypeError == PyException("ValueError", "Invalid return type")

\* signatures.name_from_signature
name_from_signature(sig) ==
    IF sig.form = "ok" THEN Return(sig.name) ELSE Raise(SignatureSyntaxError)

\* As the loop body would be without the opt_flag test.
ParseArgIgnoringOrder(arg, opt_flag) ==
    IF arg.form # "ok" THEN Raise(ParamsSyntaxError)
    ELSE IF arg.optional THEN Return(Param(arg.name, arg.type, TRUE))
    ELSE Return(Param(arg.name, arg.type, FALSE))

\* params_from_signature: the body of ``for arg in args``. match is None
\* for a piece ARG_RE does not match, and match.group raises the
\* AttributeError that becomes the params syntax error.
ParseArg(arg, opt_flag) ==
    IF arg.form # "ok" THEN Raise(ParamsSyntaxError)
    ELSE IF arg.optional THEN Return(Param(arg.name, arg.type, TRUE))
    ELSE IF opt_flag THEN Raise(ParamsOrderError)
    ELSE Return(Param(arg.name, arg.type, FALSE))

RECURSIVE ParseArgs(_, _, _, _)
\* params_from_signature: ``for arg in args`` with opt_flag and lot.
ParseArgs(args, i, opt_flag, lot) ==
    IF i > Len(args) THEN Return(lot)
    ELSE LET r == ParseArg(args[i], opt_flag)
         IN  IF r.ok
             THEN ParseArgs(args, i + 1, opt_flag \/ r.value.optional,
                            Append(lot, r.value))
             ELSE r

\* signatures.params_from_signature
params_from_signature(sig) ==
    IF sig.form # "ok" THEN Raise(SignatureSyntaxError)
    ELSE ParseArgs(sig.args, 1, FALSE, <<>>)

\* signatures.return_type_from_signature
return_type_from_signature(sig) ==
    IF sig.form # "ok" THEN Raise(SignatureSyntaxError)
    ELSE IF sig.rtype \notin TypeTags THEN Raise(ReturnTypeError)
    ELSE Return(sig.rtype)

\* jrpc(signature, safe, describe)(method), from the signature text on.
Declare(sig, safe, describe, handler) ==
    IF sig.form = "callable"
    THEN Raise(PyException("TypeError",
                           "The jrpc decorator must be provided with a method signature."))
    ELSE LET n == name_from_signature(sig)
             p == params_from_signature(sig)
             r == return_type_from_signature(sig)
         IN  IF ~n.ok THEN n
             ELSE IF ~p.ok THEN p
             ELSE IF ~r.ok THEN r
             ELSE Return(jrpc(n.value, p.value, r.value, safe, describe, handler))

NotDecorated == [ok |-> FALSE, value |-> NoParams, exc |-> NoException]

----------------------------------------------------------------------------
(* The service classes: what ``class Name(bases): body`` leaves behind     *)
(* when JSONRPCServiceMeta.__new__ has run.                                *)

\* A class: its bases as listed, its method resolution order, the decorated
\* members of its own body, and its rpc_methods attribute. A class that
\* was not made by the metaclass has no rpc_methods (has_registry FALSE).
ClassOf(bases, mro, own, has_registry, methods) ==
    [bases |-> bases, mro |-> mro, own |-> own, has_registry |-> has_registry,
     rpc_methods |-> methods]

\* JSONRPCService itself, and a plain mixin class without the metaclass.
BuiltinClasses ==
    [n \in {"JSONRPCService", "Mixin"} |->
        IF n = "JSONRPCService"
        THEN ClassOf(<<>>, <<"JSONRPCService">>, {DescribeMethod}, TRUE,
                     BaseServiceMethods)
        ELSE ClassOf(<<>>, <<"Mixin">>, {}, FALSE, <<>>)]

InTail(x, s) == \E k \in 2..Len(s) : s[k] = x

RECURSIVE C3Merge(_)
\* The merge of Python's C3 linearisation, done by type.__new__. The
\* result holds "inconsistent" when Python raises TypeError.
C3Merge(seqs) ==
    LET NonEmpty(q) == q # <<>>
        live == SelectSeq(seqs, NonEmpty)
        cands == {i \in 1..Len(live) :
                     \A j \in 1..Len(live) : ~InTail(Head(live[i]), live[j])}
    IN  IF live = <<>> THEN <<>>
        ELSE IF cands = {} THEN <<"inconsistent">>
        ELSE LET i == CHOOSE c \in cands : \A d \in cands : c <= d
                 h == Head(live[i])
             IN  <<h>> \o C3Merge([j \in 1..Len(live) |->
                                      IF Head(live[j]) = h THEN Tail(live[j])
                                      ELSE live[j]])

\* The __mro__ of ``class name(bases)``.
Mro(cls, name, bases) ==
    <<name>> \o C3Merge([i \in 1..Len(bases) |-> cls[bases[i]].mro] \o <<bases>>)

MroConsistent(order) == \A i \in 1..Len(order) : order[i] # "inconsistent"

\* The rpc_methods of the bases that have one, in the order the bases are
\* listed: ``base.rpc_methods`` raises AttributeError for the others.
BaseRegistries(cls, bases) ==
    LET HasRegistry(b) == cls[b].has_registry
        with == SelectSeq(bases, HasRegistry)
    IN  [i \in 1..Len(with) |-> cls[with[i]].rpc_methods]

\* As the class statement would be if __new__ updated the rpc_methods dict
\* of the first base in place and gave it to the new class.
DefineTypeSharingBaseDict(cls, name, bases, members) ==
    LET reg == MetaNew(BaseRegistries(cls, bases), members)
        HasRegistry(b) == cls[b].has_registry
        with == SelectSeq(bases, HasRegistry)
    IN  [n \in (DOMAIN cls) \cup {name} |->
            IF n = name
            THEN ClassOf(bases, Mro(cls, name, bases), members, TRUE, reg)
            ELSE IF with # <<>> /\ n = with[1]
            THEN [cls[n] EXCEPT !.rpc_methods = reg]
            ELSE cls[n]]

\* ``class name(bases): members`` for a class made by JSONRPCServiceMeta:
\* the classes there are once the statement has run.
DefineType(cls, name, bases, members) ==
    LET reg == MetaNew(BaseRegistries(cls, bases), members)
    IN  [n \in (DOMAIN cls) \cup {name} |->
            IF n = name
            THEN ClassOf(bases, Mro(cls, name, bases), members, TRUE, reg)
            ELSE cls[n]]

\* A method ``rpc_name() -> <nil>`` declared in the body of class owner;
\* what it returns tells whose method it is.
Member(owner, rpc_name) ==
    jrpc(rpc_name, <<>>, "nil", FALSE, TRUE, Returning(FALSE, JStr(owner)))

----------------------------------------------------------------------------
(* The inputs drawn.                                                       *)

Configs ==
    [debug : BOOLEAN, can_get : BOOLEAN, http_errors : BOOLEAN,
     provide_request : BOOLEAN]

Ids == {Absent, JNull, JTrue, JInt("1"), JLong, JFloat, JStr(""), JStr("r1"), JArr}

Versions == {Absent, JStr("2.0"), JStr("1.0")}

MethodFields ==
    {Absent, JInt("7"), JStr("nosuch"), JStr("add"), JStr("echo"), JStr("fail"),
     JStr("boom"), JStr("system.describe")}

ParamsFields ==
    {NoParams, ScalarParams(JStr("p"))}
    \cup {ListParams([i \in 1..n |-> JInt("1")]) : n \in 0..MaxSupplied}
    \cup {ListParams(<<JStr("s")>>), ListParams(<<JNull>>)}
    \cup {DictParams(EmptyMap),
          DictParams([EmptyMap EXCEPT !["a"] = JInt("1"), !["b"] = JInt("2"),
                                      !["zz"] = JInt("3")]),
          DictParams([EmptyMap EXCEPT !["a"] = JInt("1")]),
          DictParams([EmptyMap EXCEPT !["a"] = JStr("s")]),
          DictParams([EmptyMap EXCEPT !["x"] = JNull])}

Envelopes ==
    {Envelope(i, v, m, p) : i \in Ids, v \in Versions, m \in MethodFields,
                            p \in ParamsFields}

Requests ==
    {HttpRequest(h, a, "json", e) : h \in {"GET", "POST"}, a \in BOOLEAN, e \in Envelopes}
    \cup {HttpRequest(h, a, "json", NotADict) : h \in {"GET", "POST"}, a \in BOOLEAN}
    \cup {HttpRequest("GET", a, b, NotADict) : a \in BOOLEAN, b \in {"missing", "empty", "malformed"}}
    \cup {HttpRequest("POST", a, "malformed", NotADict) : a \in BOOLEAN}
    \cup {HttpRequest("PUT", a, "missing", NotADict) : a \in BOOLEAN}

\* Values of the Python types json.loads returns.
AllValues == {JNull, JTrue, JInt("1"), JLong, JFloat, JStr("s"), JArr, JObj}

SomeValues == {JNull, JTrue, JInt("1"), JStr("s")}

SomeTags == {"num", "str", "nil", "any"}

\* Declared params as the signature parser leaves them: named in order, no
\* required param after an optional one.
DeclaredOver(tags, n) ==
    {[i \in 1..n |-> Param(ParamNames[i], f[i].type, f[i].optional)] :
        f \in {g \in [1..n -> [type : tags, optional : BOOLEAN]] :
                  \A i \in 1..n : \A k \in 1..n :
                      (i < k /\ g[i].optional) => g[k].optional}}

DeclaredLists ==
    DeclaredOver(TypeTags, 1)
    \cup UNION {DeclaredOver(SomeTags, n) : n \in 0..MaxDeclared}

SuppliedParams ==
    {ScalarParams(JStr("p"))}
    \cup {ListParams(<<v>>) : v \in AllValues}
    \cup {ListParams(s) : s \in UNION {[1..n -> SomeValues] : n \in 0..MaxSupplied}}
    \cup {DictParams([EmptyMap EXCEPT !["a"] = v]) : v \in AllValues}
    \cup {DictParams(m) : m \in [Keys -> {Absent, JNull, JInt("1"), JStr("s")}]}

NotRun == [ok |-> FALSE, value |-> NoParams, exc |-> NoException]

----------------------------------------------------------------------------
(* The state machine of one call.                                          *)

Init ==
    /\ cfg \in Configs
    /\ rpc_methods = ServiceMethods(cfg.provide_request)
    /\ pc = "idle"
    /\ request = NoRequest
    /\ json_req = NotADict
    /\ rid = Absent
    /\ method = Absent
    /\ params = NoParams
    /\ hook = "not run"
    /\ trace = <<>>
    /\ calls = <<>>
    /\ response = NoResponse
    /\ raised = NoException
    /\ vdefined = <<>>
    /\ vparams = NoParams
    /\ vresult = NotRun
    /\ signature = NoSignature
    /\ decorated = NotDecorated
    /\ classes = BuiltinClasses
    /\ parked = <<>>

\* __call__ returns the HttpResponse.
Returned(resp) ==
    /\ pc' = "responded"
    /\ response' = resp
    /\ raised' = NoException

\* An exception leaves __call__.
Propagated(ex) ==
    /\ pc' = "raised"
    /\ raised' = ex
    /\ response' = NoResponse

\* ``except JSONRPCError, ex`` of the first try block: rid is not known.
Except1(ex) ==
    IF ex.rpc THEN Returned(ErrorResponse(cfg, ex, JNull)) ELSE Propagated(ex)

\* ``except JSONRPCError, ex`` of the second try block.
Except2(ex) ==
    IF ex.rpc THEN Returned(ErrorResponse(cfg, ex, rid)) ELSE Propagated(ex)

\* ``except Exception, ex`` of the third try block.
Except3(ex) ==
    IF Reraises(cfg, request, ex)
    THEN Propagated(ex)
    ELSE Returned(ErrorResponse(cfg, ex, rid))

Enter(stage) ==
    /\ pc = stage
    /\ trace' = Append(trace, stage)

Goto(stage) ==
    /\ pc' = stage
    /\ UNCHANGED <<response, raised>>

\* The transport hands a request to the service.
Receive ==
    /\ pc = "idle"
    /\ \E req \in Requests : request' = req
    /\ pc' = "extract"
    /\ UNCHANGED <<cfg, rpc_methods, json_req, rid, method, params, hook, trace,
                   calls, response, raised, valvars, defvars, parked>>

Extract ==
    /\ Enter("extract")
    /\ LET r == GetJsonReq(request)
       IN  IF r.ok THEN json_req' = r.value /\ Goto("identify")
           ELSE UNCHANGED json_req /\ Except1(r.exc)
    /\ UNCHANGED <<cfg, rpc_methods, request, rid, method, params, hook, calls, valvars, defvars, parked>>

Identify ==
    /\ Enter("identify")
    /\ LET r == ValidJsonrpcId(json_req)
       IN  IF r.ok THEN rid' = r.value /\ Goto("version")
           ELSE UNCHANGED rid /\ Except1(r.exc)
    /\ UNCHANGED <<cfg, rpc_methods, request, json_req, method, params, hook, calls,
                   valvars, defvars, parked>>

VersionCheck ==
    /\ Enter("version")
    /\ LET r == ValidateJsonrpcVersion(json_req)
       IN  IF r.ok THEN Goto("method") ELSE Except2(r.exc)
    /\ UNCHANGED <<cfg, rpc_methods, request, json_req, rid, method, params, hook,
                   calls, valvars, defvars, parked>>

MethodField ==
    /\ Enter("method")
    /\ LET r == ValidJsonrpcMethod(json_req)
       IN  IF r.ok THEN method' = r.value /\ Goto("params")
           ELSE UNCHANGED method /\ Except3(r.exc)
    /\ UNCHANGED <<cfg, rpc_methods, request, json_req, rid, params, hook, calls,
                   valvars, defvars, parked>>

ParamsField ==
    /\ Enter("params")
    /\ LET r == ValidJsonrpcParams(json_req)
       IN  IF r.ok THEN params' = r.value /\ Goto("hook")
           ELSE UNCHANGED params /\ Except3(r.exc)
    /\ UNCHANGED <<cfg, rpc_methods, request, json_req, rid, method, hook, calls,
                   valvars, defvars, parked>>

\* self._validate_extra(request, json_req)
Hook ==
    /\ Enter("hook")
    /\ \E r \in HookOutcomes :
          IF r.ok THEN hook' = "passed" /\ Goto("lookup")
          ELSE hook' = r.exc.kind /\ Except3(r.exc)
    /\ UNCHANGED <<cfg, rpc_methods, request, json_req, rid, method, params, calls,
                   valvars, defvars, parked>>

\* _dispatch: the lookup in self.methods.
Lookup ==
    /\ Enter("lookup")
    /\ LET r == LookupMethod(rpc_methods, method.v)
       IN  IF r.ok THEN Goto("gate") ELSE Except3(r.exc)
    /\ UNCHANGED <<cfg, rpc_methods, request, json_req, rid, method, params, hook,
                   calls, valvars, defvars, parked>>

\* _dispatch: the GET test.
Gate ==
    /\ Enter("gate")
    /\ LET r == GetGate(request.method, cfg.can_get, rpc_methods[method.v])
       IN  IF r.ok THEN Goto("validate") ELSE Except3(r.exc)
    /\ UNCHANGED <<cfg, rpc_methods, request, json_req, rid, method, params, hook,
                   calls, valvars, defvars, parked>>

\* _dispatch: ``params = self._valid_params(method, params)``
Validate ==
    /\ Enter("validate")
    /\ LET r == ValidParams(rpc_methods[method.v].rpc_params, params)
       IN  IF r.ok THEN params' = r.value /\ Goto("invoke")
           ELSE UNCHANGED params /\ Except3(r.exc)
    /\ UNCHANGED <<cfg, rpc_methods, request, json_req, rid, method, hook, calls,
                   valvars, defvars, parked>>

\* _dispatch: the call of the method, and the return of __call__.
Invoke ==
    /\ Enter("invoke")
    /\ LET desc == rpc_methods[method.v]
           call == CallOf(desc, cfg.provide_request, params)
           r == CallHandler(desc, call, rpc_methods)
       IN  /\ calls' = Append(calls, call)
           /\ IF r.ok THEN Returned(ResultResponse(cfg, r.value, rid))
              ELSE Except3(r.exc)
    /\ UNCHANGED <<cfg, rpc_methods, request, json_req, rid, method, params, hook,
                   valvars, defvars, parked>>

\* The call is over; the service waits for the next request.
NextCall ==
    /\ pc \in {"responded", "raised"}
    /\ pc' = "idle"
    /\ request' = NoRequest
    /\ json_req' = NotADict
    /\ rid' = Absent
    /\ method' = Absent
    /\ params' = NoParams
    /\ hook' = "not run"
    /\ trace' = <<>>
    /\ calls' = <<>>
    /\ response' = NoResponse
    /\ raised' = NoException
    /\ UNCHANGED <<cfg, rpc_methods, valvars, defvars, parked>>

Next ==
    \/ Receive
    \/ Extract
    \/ Identify
    \/ VersionCheck
    \/ MethodField
    \/ ParamsField
    \/ Hook
    \/ Lookup
    \/ Gate
    \/ Validate
    \/ Invoke
    \/ NextCall

Spec == Init /\ [][Next]_vars

----------------------------------------------------------------------------
(* _valid_params on its own, over declared and supplied params drawn from  *)
(* bounded sets.                                                           *)

InitValidate ==
    /\ cfg = [debug |-> FALSE, can_get |-> FALSE, http_errors |-> TRUE,
              provide_request |-> FALSE]
    /\ rpc_methods = ServiceMethods(cfg.provide_request)
    /\ pc = "idle"
    /\ request = NoRequest
    /\ json_req = NotADict
    /\ rid = Absent
    /\ method = Absent
    /\ params = NoParams
    /\ hook = "not run"
    /\ trace = <<>>
    /\ calls = <<>>
    /\ response = NoResponse
    /\ raised = NoException
    /\ vdefined \in DeclaredLists
    /\ vparams \in SuppliedParams
    /\ vresult = NotRun
    /\ signature = NoSignature
    /\ decorated = NotDecorated
    /\ classes = BuiltinClasses
    /\ parked = <<>>

RunValidParams ==
    /\ vresult = NotRun
    /\ vresult' = ValidParams(vdefined, vparams)
    /\ UNCHANGED <<pipevars, vdefined, vparams, defvars, parked>>

NextValidate == RunValidParams

SpecValidate == InitValidate /\ [][NextValidate]_vars

----------------------------------------------------------------------------
(* The jrpc decorator on its own, over signature texts drawn from a        *)
(* bounded set.                                                            *)

\* Type tags written in the drawn signatures; "spam" is not a type tag.
WrittenTags == {"num", "str", "spam"}

\* The pieces a text can have at position i of its argument list.
ArgTexts(i) ==
    {MalformedArg}
    \cup {ArgText("ok", ParamNames[i], t, o) : t \in WrittenTags, o \in BOOLEAN}

ArgLists ==
    UNION {{s \in [1..n -> UNION {ArgTexts(i) : i \in 1..n}] :
               \A i \in 1..n : s[i] \in ArgTexts(i)} : n \in 0..MaxDeclared}

Signatures ==
    {SignatureText(f, "proc", a, r) :
        f \in {"ok", "bad"}, a \in ArgLists, r \in {"num", "nil", "spam"}}
    \cup {SignatureText("callable", "", <<>>, "")}

\* No call is being handled and no call is parked.
NoCallAtAll ==
    /\ pc = "idle"
    /\ request = NoRequest
    /\ json_req = NotADict
    /\ rid = Absent
    /\ method = Absent
    /\ params = NoParams
    /\ hook = "not run"
    /\ trace = <<>>
    /\ calls = <<>>
    /\ response = NoResponse
    /\ raised = NoException
    /\ parked = <<>>

InitSignature ==
    /\ cfg = [debug |-> FALSE, can_get |-> FALSE, http_errors |-> TRUE,
              provide_request |-> FALSE]
    /\ rpc_methods = ServiceMethods(cfg.provide_request)
    /\ NoCallAtAll
    /\ vdefined = <<>>
    /\ vparams = NoParams
    /\ vresult = NotRun
    /\ signature \in Signatures
    /\ decorated = NotDecorated
    /\ classes = BuiltinClasses

\* ``@jrpc(signature)`` above a method definition.
RunJrpc ==
    /\ decorated = NotDecorated
    /\ decorated' = Declare(signature, FALSE, TRUE, Returning(FALSE, JNull))
    /\ UNCHANGED <<pipevars, valvars, signature, classes, parked>>

NextSignature == RunJrpc

SpecSignature == InitSignature /\ [][NextSignature]_vars

----------------------------------------------------------------------------
(* Class statements on their own: service classes defined one after the    *)
(* other, each over bases that exist already.                              *)

\* Number of service classes defined on top of the built-in ones.
MaxClasses == 3

\* Longest list of bases of a class statement.
MaxBases == 2

NewClassNames == <<"A", "B", "C", "D">>

\* RPC names the class bodies declare, beside the inherited system.describe.
RpcNames == {"f"}

Defined == (DOMAIN classes) \ (DOMAIN BuiltinClasses)

\* Lists of distinct existing classes, of which one at least was made by
\* the metaclass (else the metaclass does not run for the new class).
BaseLists ==
    {b \in UNION {[1..n -> DOMAIN classes] : n \in 1..MaxBases} :
        /\ \A i \in 1..Len(b) : \A k \in 1..Len(b) : i # k => b[i] # b[k]
        /\ \E i \in 1..Len(b) : classes[b[i]].has_registry}

InitTypes ==
    /\ cfg = [debug |-> FALSE, can_get |-> FALSE, http_errors |-> TRUE,
              provide_request |-> FALSE]
    /\ rpc_methods = ServiceMethods(cfg.provide_request)
    /\ NoCallAtAll
    /\ vdefined = <<>>
    /\ vparams = NoParams
    /\ vresult = NotRun
    /\ signature = NoSignature
    /\ decorated = NotDecorated
    /\ classes = BuiltinClasses

\* ``class name(bases): ...`` with some decorated methods in its body.
\* type.__new__ raises TypeError when the bases have no consistent order.
DefineClass ==
    /\ Cardinality(Defined) < MaxClasses
    /\ LET name == NewClassNames[Cardinality(Defined) + 1]
       IN  \E bases \in BaseLists : \E names \in SUBSET RpcNames :
              /\ MroConsistent(Mro(classes, name, bases))
              /\ classes' = DefineType(classes, name, bases,
                                       {Member(name, n) : n \in names})
    /\ UNCHANGED <<pipevars, valvars, signature, decorated, parked>>

NextTypes == DefineClass

SpecTypes == InitTypes /\ [][NextTypes]_vars

----------------------------------------------------------------------------
(* Concurrent calls of one service instance. Each call runs __call__ with  *)
(* its own local variables; the instance and the classes are shared. The   *)
(* call whose locals are in the call variables is the one running now, the *)
(* others wait in parked, and a thread switch exchanges the two.           *)

\* Number of calls that can be in flight beside the running one.
MaxParked == 1

\* The local variables of the running call.
Context ==
    [pc |-> pc, request |-> request, json_req |-> json_req, rid |-> rid,
     method |-> method, params |-> params, hook |-> hook, trace |-> trace,
     calls |-> calls, response |-> response, raised |-> raised]

IdleContext ==
    [pc |-> "idle", request |-> NoRequest, json_req |-> NotADict, rid |-> Absent,
     method |-> Absent, params |-> NoParams, hook |-> "not run", trace |-> <<>>,
     calls |-> <<>>, response |-> NoResponse, raised |-> NoException]

ConcurrentConfigs ==
    {c \in Configs : ~c.can_get /\ c.http_errors /\ ~c.provide_request}

ConcurrentRequests ==
    {HttpRequest("POST", FALSE, "json",
                 Envelope(JStr("r1"), JStr("2.0"), JStr("add"), ListParams(<<JInt("1")>>))),
     HttpRequest("POST", FALSE, "json",
                 Envelope(JInt("1"), JStr("2.0"), JStr("add"), ListParams(<<JStr("s")>>))),
     HttpRequest("POST", FALSE, "json",
                 Envelope(JInt("1"), JStr("2.0"), JStr("boom"), ListParams(<<>>))),
     HttpRequest("POST", FALSE, "malformed", NotADict)}

\* What a call comes to: how __call__ ends, with which response or
\* exception.
Outcome(end, resp, ex) == [pc |-> end, response |-> resp, raised |-> ex]

SoloExcept1(c, ex) ==
    IF ex.rpc THEN Outcome("responded", ErrorResponse(c, ex, JNull), NoException)
    ELSE Outcome("raised", NoResponse, ex)

SoloExcept2(c, ex, id) ==
    IF ex.rpc THEN Outcome("responded", ErrorResponse(c, ex, id), NoException)
    ELSE Outcome("raised", NoResponse, ex)

SoloExcept3(c, req, ex, id) ==
    IF Reraises(c, req, ex) THEN Outcome("raised", NoResponse, ex)
    ELSE Outcome("responded", ErrorResponse(c, ex, id), NoException)

\* _dispatch as a function of the service, the registry and the request.
SoloDispatch(c, methods, req, id, m, p) ==
    LET found == LookupMethod(methods, m.v)
    IN  IF ~found.ok THEN SoloExcept3(c, req, found.exc, id)
        ELSE LET desc == found.value
                 gate == GetGate(req.method, c.can_get, desc)
                 valid == ValidParams(desc.rpc_params, p)
             IN  IF ~gate.ok THEN SoloExcept3(c, req, gate.exc, id)
                 ELSE IF ~valid.ok THEN SoloExcept3(c, req, valid.exc, id)
                 ELSE LET r == CallHandler(desc,
                                           CallOf(desc, c.provide_request, valid.value),
                                           methods)
                      IN  IF r.ok
                          THEN Outcome("responded", ResultResponse(c, r.value, id),
                                       NoException)
                          ELSE SoloExcept3(c, req, r.exc, id)

\* __call__ as a function of the service, the registry, the request and
\* what the hook does for the request (h: "passed" or the kind of the
\* exception it raises).
SoloCall(c, methods, req, h) ==
    LET got == GetJsonReq(req)
    IN  IF ~got.ok THEN SoloExcept1(c, got.exc)
        ELSE LET j == got.value
                 id == ValidJsonrpcId(j)
                 version == ValidateJsonrpcVersion(j)
                 m == ValidJsonrpcMethod(j)
                 p == ValidJsonrpcParams(j)
             IN  IF ~id.ok THEN SoloExcept1(c, id.exc)
                 ELSE IF ~version.ok THEN SoloExcept2(c, version.exc, id.value)
                 ELSE IF ~m.ok THEN SoloExcept3(c, req, m.exc, id.value)
                 ELSE IF ~p.ok THEN SoloExcept3(c, req, p.exc, id.value)
                 ELSE IF h # "passed"
                 THEN SoloExcept3(c, req,
                                  (CHOOSE r \in HookOutcomes : ~r.ok /\ r.exc.kind = h).exc,
                                  id.value)
                 ELSE SoloDispatch(c, methods, req, id.value, m.value, p.value)

InitConcurrent ==
    /\ cfg \in ConcurrentConfigs
    /\ classes = DefineType(BuiltinClasses, "Service", <<"JSONRPCService">>,
                            ServiceMembers(cfg.provide_request))
    /\ rpc_methods = classes["Service"].rpc_methods
    /\ pc = "idle"
    /\ request = NoRequest
    /\ json_req = NotADict
    /\ rid = Absent
    /\ method = Absent
    /\ params = NoParams
    /\ hook = "not run"
    /\ trace = <<>>
    /\ calls = <<>>
    /\ response = NoResponse
    /\ raised = NoException
    /\ parked = [i \in 1..MaxParked |-> IdleContext]
    /\ vdefined = <<>>
    /\ vparams = NoParams
    /\ vresult = NotRun
    /\ signature = NoSignature
    /\ decorated = NotDecorated

\* The transport hands a request to the thread that is running.
ReceiveFew ==
    /\ pc = "idle"
    /\ \E req \in ConcurrentRequests : request' = req
    /\ pc' = "extract"
    /\ UNCHANGED <<cfg, rpc_methods, json_req, rid, method, params, hook, trace,
                   calls, response, raised, valvars, defvars, parked>>

\* The interpreter switches to another thread: the locals of the running
\* call are put aside and those of a parked call come back.
Switch ==
    /\ \E i \in 1..Len(parked) :
          /\ parked' = [parked EXCEPT ![i] = Context]
          /\ pc' = parked[i].pc
          /\ request' = parked[i].request
          /\ json_req' = parked[i].json_req
          /\ rid' = parked[i].rid
          /\ method' = parked[i].method
          /\ params' = parked[i].params
          /\ hook' = parked[i].hook
          /\ trace' = parked[i].trace
          /\ calls' = parked[i].calls
          /\ response' = parked[i].response
          /\ raised' = parked[i].raised
    /\ UNCHANGED <<cfg, rpc_methods, valvars, defvars>>

\* ``class Sub(Service)`` with its own add is defined while calls are in
\* flight; self.methods of the instance reads rpc_methods of Service.
DefineSubtype ==
    /\ "Sub" \notin DOMAIN classes
    /\ classes' = DefineType(classes, "Sub", <<"Service">>, {Member("Sub", "add")})
    /\ rpc_methods' = classes'["Service"].rpc_methods
    /\ UNCHANGED <<cfg, pc, request, json_req, rid, method, params, hook, trace,
                   calls, response, raised, valvars, signature, decorated, parked>>

NextConcurrent ==
    \/ ReceiveFew
    \/ Extract
    \/ Identify
    \/ VersionCheck
    \/ MethodField
    \/ ParamsField
    \/ Hook
    \/ Lookup
    \/ Gate
    \/ Validate
    \/ Invoke
    \/ NextCall
    \/ Switch
    \/ DefineSubtype

SpecConcurrent == InitConcurrent /\ [][NextConcurrent]_vars

----------------------------------------------------------------------------
(* Vocabulary of the properties.                                           *)

IsPrefix(s, t) == Len(s) <= Len(t) /\ \A i \in 1..Len(s) : s[i] = t[i]

Entered(stage) == \E i \in 1..Len(trace) : trace[i] = stage

Ended == pc \in {"responded", "raised"}

HasError == "error" \in response.keys

HasResult == "result" \in response.keys

\* The order in which __call__ and _dispatch run the stages.
StageOrder ==
    <<"extract", "identify", "version", "method", "params", "hook", "lookup",
      "gate", "validate", "invoke">>

\* The order with the whole method resolution ahead of the params.
ResolveFirstOrder ==
    <<"extract", "identify", "version", "method", "lookup", "gate", "params",
      "hook", "validate", "invoke">>

\* The request carries an envelope that is a JSON object.
Decoded ==
    /\ request.method \in {"GET", "POST"}
    /\ request.body = "json"
    /\ request.json.is_dict

\* The envelope has a usable id, the right version and a string as method.
GoodUpToMethod ==
    /\ Decoded
    /\ request.json.id \in {JInt("1"), JStr("r1")}
    /\ request.json.jsonrpc = JStr("2.0")
    /\ request.json.method.t = "unicode"

RegisteredNames == {"system.describe", "add", "echo", "fail", "boom"}

UnknownMethod == GoodUpToMethod /\ request.json.method.v \notin RegisteredNames

KnownMethod == GoodUpToMethod /\ request.json.method.v \in RegisteredNames

ParamsIsContainer == request.json.params.t \in {"list", "dict"}

\* Whether a stage fails on the request at hand; asked only of a request
\* that passes the stages before it.
StageFails(stage) ==
    CASE stage = "extract" -> ~GetJsonReq(request).ok
      [] stage = "identify" -> ~ValidJsonrpcId(request.json).ok
      [] stage = "version" -> ~ValidateJsonrpcVersion(request.json).ok
      [] stage = "method" -> ~ValidJsonrpcMethod(request.json).ok
      [] stage = "params" -> ~ValidJsonrpcParams(request.json).ok
      [] stage = "hook" -> hook # "passed"
      [] stage = "lookup" -> request.json.method.v \notin RegisteredNames
      [] stage = "gate" -> request.method = "GET" /\ ~cfg.can_get
      [] stage = "validate" ->
            ~ValidParams(rpc_methods[request.json.method.v].rpc_params,
                         request.json.params).ok
      [] stage = "invoke" -> ~HasResult

RECURSIVE FirstFailing(_, _)
\* The index of the first stage of order that fails, 0 when none does.
FirstFailing(order, i) ==
    IF i > Len(order) THEN 0
    ELSE IF StageFails(order[i]) THEN i
    ELSE FirstFailing(order, i + 1)

----------------------------------------------------------------------------
(* C1                                                                      *)

\* C1 as stated: the stages run in the order Extract, Identify,
\* Version-check, Resolve method name (with the registry lookup and the GET
\* gate), Extract params, hook, Validate params, Invoke, and a request that
\* names an unknown method is answered with MethodNotFoundError (-32601)
\* whatever its params field and whatever the hook would do.
C1_ResolveBeforeParams ==
    (pc = "responded" /\ UnknownMethod) =>
        /\ IsPrefix(trace, ResolveFirstOrder)
        /\ HasError
        /\ response.error.code = -32601

\* C1 (amended): the stages run in the order Extract, Identify,
\* Version-check, method field check, Extract params, hook, registry
\* lookup, GET gate, Validate params, Invoke; a call ends at the earliest
\* stage of that order that fails, and the error returned is that stage's:
\* a request naming an unknown method gets InvalidRequestError when params
\* is missing, InvalidParamsError when params is neither array nor object,
\* the hook's error when the hook rejects it, and MethodNotFoundError only
\* when all of these pass.
C1_EarliestStageInCodeOrder ==
    /\ IsPrefix(trace, StageOrder)
    /\ Ended =>
          LET i == FirstFailing(StageOrder, 1)
          IN  trace = SubSeq(StageOrder, 1, IF i = 0 THEN Len(StageOrder) ELSE i)
    /\ (pc = "responded" /\ UnknownMethod) =>
          /\ HasError
          /\ response.error.code =
                IF request.json.params = NoParams THEN -32600
                ELSE IF ~ParamsIsContainer THEN -32602
                ELSE IF hook = "ServerError" THEN -32099
                ELSE IF hook = "KeyError" THEN -32603
                ELSE -32601

\* An unknown method named in a request without params has been answered.
C1_Witness ==
    /\ pc = "responded"
    /\ UnknownMethod
    /\ request.json.params = NoParams

----------------------------------------------------------------------------
(* C2                                                                      *)

\* C2 as stated: a decoded envelope whose id is absent, an empty string or
\* of a kind other than string or integer is answered with
\* InvalidRequestError (-32600), and the call goes on to the version check
\* only when the id is a non-empty string or an integer.
C2_IdentifyRejectsNonStringNonInteger ==
    (Ended /\ Decoded) =>
        IF \/ request.json.id.t = "unicode" /\ request.json.id.v # ""
           \/ request.json.id.t \in {"int", "long"}
        THEN Entered("version")
        ELSE /\ ~Entered("version")
             /\ pc = "responded"
             /\ HasError
             /\ response.error.code = -32600

----------------------------------------------------------------------------
(* C3                                                                      *)

\* C3: a response for a request that passed the Identify stage carries the
\* request's id, whichever later stage failed or succeeded; a response for
\* a failure in Extract or Identify carries the id null.
C3_ResponseEchoesId ==
    pc = "responded" =>
        IF Entered("version")
        THEN response.id = request.json.id /\ response.id # JNull
        ELSE response.id = JNull

\* An error response of a late stage carries the request's id.
C3_Witness ==
    /\ pc = "responded"
    /\ Entered("validate")
    /\ HasError
    /\ response.id = JStr("r1")

----------------------------------------------------------------------------
(* C4                                                                      *)

\* The request reaches the GET test of _dispatch.
ReachesGate == KnownMethod /\ ParamsIsContainer /\ hook = "passed"

\* C4 as stated: for a GET request naming a registered method, resolution
\* succeeds when the descriptor's safe flag or the service's can_get is
\* set and fails with MethodNotFoundError when neither is; a POST request
\* always passes.
C4_SafeFlagOpensGet ==
    (Ended /\ ReachesGate) =>
        LET desc == rpc_methods[request.json.method.v]
        IN  IF request.method = "POST" \/ desc.rpc_safe \/ cfg.can_get
            THEN Entered("validate")
            ELSE /\ ~Entered("validate")
                 /\ pc = "responded"
                 /\ HasError
                 /\ response.error.code = -32601

----------------------------------------------------------------------------
(* C5                                                                      *)

DeclaredNames(rpc_params) == {rpc_params[i].name : i \in 1..Len(rpc_params)}

\* C5: when validation succeeds the validated params hold exactly the
\* declared params: for a list one entry per declared param in declared
\* order, for a dict the declared names as keys; each entry is the
\* supplied value, or nil when the param is optional and was not supplied;
\* supplied extras are dropped; the handler is called positionally for a
\* list and by name for a dict.
C5_ValidatedParamsAreTheDeclaredOnes ==
    (Entered("validate") /\ (pc = "invoke" \/ Entered("invoke"))) =>
        LET supplied == request.json.params
            declared == rpc_methods[method.v].rpc_params
        IN  /\ params.t = supplied.t
            /\ supplied.t = "list" =>
                  /\ Len(params.seq) = Len(declared)
                  /\ \A i \in 1..Len(declared) :
                        IF i <= Len(supplied.seq)
                        THEN params.seq[i] = supplied.seq[i]
                        ELSE declared[i].optional /\ params.seq[i] = JNull
            /\ supplied.t = "dict" =>
                  /\ {k \in Keys : params.map[k] # Absent} = DeclaredNames(declared)
                  /\ \A i \in 1..Len(declared) :
                        LET k == declared[i].name
                        IN  IF supplied.map[k] # Absent
                            THEN params.map[k] = supplied.map[k]
                            ELSE declared[i].optional /\ params.map[k] = JNull
            /\ Entered("invoke") =>
                  /\ Len(calls) = 1
                  /\ calls[1].name = method.v
                  /\ calls[1].style = (IF supplied.t = "list" THEN "args" ELSE "kwargs")
                  /\ calls[1].args = params.seq
                  /\ calls[1].kwargs = params.map

\* A handler has been called by name with a dict that was sent with an
\* extra key and without an optional param.
C5_Witness ==
    /\ Entered("invoke")
    /\ Len(calls) = 1
    /\ calls[1].style = "kwargs"
    /\ request.json.params.map["zz"] # Absent
    /\ calls[1].kwargs["zz"] = Absent
    /\ calls[1].kwargs["a"] = JInt("1")

----------------------------------------------------------------------------
(* C6                                                                      *)

\* What is supplied for the i-th declared param: by index for a list, by
\* key for a dict.
SuppliedFor(rpc_params, p, i) ==
    IF p.t = "list"
    THEN IF i <= Len(p.seq) THEN p.seq[i] ELSE Absent
    ELSE p.map[rpc_params[i].name]

\* The i-th declared param is required and not supplied, or what is
\* supplied is not of a type its tag accepts and is not a nil for an
\* optional param.
Offending(rpc_params, p, i) ==
    LET s == SuppliedFor(rpc_params, p, i)
    IN  \/ s = Absent /\ ~rpc_params[i].optional
        \/ /\ s # Absent
           /\ s.t \notin json_types(rpc_params[i].type)
           /\ ~(rpc_params[i].optional /\ s = JNull)

\* C6: validation fails with InvalidParamsError (-32602) naming the
\* offending param when a required declared param is not supplied, by
\* index for lists and by key for dicts, or when a supplied value is of a
\* type the declared tag does not accept; nil for an optional param is
\* always accepted; validation succeeds when no declared param offends.
C6_InvalidParamsNamesOffender ==
    (vresult # NotRun /\ vparams.t \in {"list", "dict"}) =>
        LET bad == {i \in 1..Len(vdefined) : Offending(vdefined, vparams, i)}
        IN  IF bad = {}
            THEN vresult.ok
            ELSE /\ ~vresult.ok
                 /\ vresult.exc.rpc
                 /\ vresult.exc.code = -32602
                 /\ \E i \in bad :
                       /\ \A k \in bad : i <= k
                       /\ vresult.exc.details.param = vdefined[i].name

\* A dict without its required second param has been refused, and names it.
C6_Witness ==
    /\ vresult # NotRun
    /\ vparams.t = "dict"
    /\ Len(vdefined) = 2
    /\ ~vdefined[2].optional
    /\ vparams.map["a"] = JStr("s")
    /\ vdefined[1].type = "str"
    /\ vparams.map["b"] = Absent
    /\ ~vresult.ok
    /\ vresult.exc.details.param = "b"

----------------------------------------------------------------------------
(* C7                                                                      *)

\* The acceptance relation as C7 states it, over the Python types of
\* decoded JSON values.
StatedAccepts(tag) ==
    CASE tag = "bit" -> {"bool"}
      [] tag = "num" -> {"int", "long", "float"}
      [] tag = "str" -> {"unicode"}
      [] tag = "arr" -> {"list"}
      [] tag = "obj" -> {"dict"}
      [] tag = "nil" -> {"NoneType"}
      [] tag = "any" -> {"bool", "int", "long", "float", "unicode", "list",
                         "dict", "NoneType"}

\* C7 as stated: validation accepts a value supplied for a required param
\* exactly when the value's kind is one its tag accepts: bit booleans, num
\* numbers, str text, arr sequences, obj mappings, nil null, any every
\* kind, null included.
C7_TagAcceptance ==
    (/\ vresult # NotRun
     /\ vparams.t = "list"
     /\ Len(vparams.seq) = 1
     /\ Len(vdefined) = 1
     /\ ~vdefined[1].optional) =>
        (vresult.ok <=> vparams.seq[1].t \in StatedAccepts(vdefined[1].type))

----------------------------------------------------------------------------
(* C8                                                                      *)

\* The exception the hook or the handler raised in this call, when a
\* response was made of it.
FaultAnswered(ex) ==
    /\ pc = "responded"
    /\ \/ /\ hook = ex.kind
          /\ ex \in {r.exc : r \in {h \in HookOutcomes : ~h.ok}}
       \/ /\ Entered("invoke")
          /\ LET h == rpc_methods[method.v].handler
             IN  IF h.takes_request # cfg.provide_request
                 THEN ex = PyException("TypeError", "wrong number of arguments")
                 ELSE h.does = "raise" /\ ex = h.exc

Faults ==
    {QuotaError, ValueError, PyException("KeyError", "quota table"),
     PyException("TypeError", "wrong number of arguments")}

\* C8: when the handler or the hook raises and a response is produced, a
\* JSONRPCError yields an error object with its own code, message and
\* details; any other exception yields code -32603 with the message and
\* details of InternalError.
C8_FaultToErrorObject ==
    \A ex \in Faults :
        FaultAnswered(ex) =>
            /\ HasError /\ ~HasResult
            /\ IF ex.rpc
               THEN /\ response.error.code = ex.code
                    /\ response.error.message = ex.message
                    /\ response.error.details = ex.details
               ELSE /\ response.error.code = -32603
                    /\ response.error.message = "Internal error"

\* The handler raised a ValueError and the call was answered.
C8_Witness ==
    /\ FaultAnswered(ValueError)
    /\ method.v = "boom"
    /\ response.error.code = -32603

----------------------------------------------------------------------------
(* C9                                                                      *)

\* The HTTP status C9 states for each kind of error, by its code.
StatedStatus(code) ==
    CASE code = -32700 -> 500
      [] code = -32600 -> 400
      [] code = -32601 -> 404
      [] code = -32602 -> 500
      [] code = -32603 -> 500
      [] code = -32099 -> 500

\* C9: a response has exactly one of result and error; its status is 200
\* for a success, the status of the error's kind when http_errors is on,
\* and 200 for every error when http_errors is off.
C9_OneOfResultErrorAndStatus ==
    pc = "responded" =>
        /\ HasResult # HasError
        /\ response.status =
              IF HasResult THEN 200
              ELSE IF cfg.http_errors THEN StatedStatus(response.error.code)
              ELSE 200

\* An unknown method was answered with status 404.
C9_Witness ==
    /\ pc = "responded"
    /\ HasError
    /\ cfg.http_errors
    /\ response.error.code = -32601
    /\ response.status = 404

----------------------------------------------------------------------------
(* C10                                                                     *)

\* C10 as stated: a call ends without a response only when the service is
\* in debug mode, the request is not an AJAX request and the exception is
\* not a JSONRPCError; with debug off every call returns a response.
C10_RaisesOnlyInDebug ==
    pc = "raised" => (cfg.debug /\ ~request.ajax /\ ~raised.rpc)

----------------------------------------------------------------------------
(* C11                                                                     *)

\* The response _response makes of an unexpected exception when debug is
\* off, for a request with the given id.
OpaqueInternalError(id) ==
    [keys |-> {"id", "jsonrpc", "error"},
     id |-> id,
     jsonrpc |-> jsonrpc_version,
     error |-> [code |-> -32603,
                message |-> "Internal error",
                details |-> Details("An internal error has occurred", "", ""),
                traceback |-> FALSE],
     result |-> JNull,
     status |-> IF cfg.http_errors THEN 500 ELSE 200]

\* C11: with debug off no response has a debug block or a traceback, and
\* the response to a fault of the hook or the handler that is not a
\* JSONRPCError is one fixed response (code -32603, the message and details
\* of the wrapping InternalError) that depends on the request's id and the
\* service only, so that requests differing only in the type or message of
\* the fault get identical responses.
C11_NoFaultDetailWithoutDebug ==
    (pc = "responded" /\ ~cfg.debug) =>
        /\ "debug" \notin response.keys
        /\ ~response.error.traceback
        /\ \A ex \in Faults :
              (FaultAnswered(ex) /\ ~ex.rpc) =>
                  response = OpaqueInternalError(request.json.id)

\* With debug off the hook raised a KeyError and the call was answered.
C11_Witness ==
    /\ ~cfg.debug
    /\ FaultAnswered(PyException("KeyError", "quota table"))
    /\ response = OpaqueInternalError(request.json.id)

----------------------------------------------------------------------------
(* C12                                                                     *)

OwnNames(c) == {m.rpc_method_name : m \in classes[c].own}

\* The classes of the __mro__ of c other than c that have an rpc_methods.
Ancestors(c) ==
    {classes[c].mro[i] : i \in 2..Len(classes[c].mro)}
        \cap {a \in DOMAIN classes : classes[a].has_registry}

\* The names in the registries of the ancestors of c.
AncestorNames(c) == UNION {DOMAIN classes[a].rpc_methods : a \in Ancestors(c)}

\* C12: on a class that declares a procedure under an RPC name, that name
\* resolves to the class's own method also when an ancestor's registry
\* has the name; every name of an ancestor's registry that the class does
\* not declare again resolves to a descriptor of an ancestor's registry
\* (to the base's descriptor when the class has one base); the names the
\* class alone declares are added, and the registry has no other name.
C12_RegistryOverride ==
    \A c \in Defined :
        LET reg == classes[c].rpc_methods
        IN  /\ \A m \in classes[c].own :
                  /\ m.rpc_method_name \in DOMAIN reg
                  /\ reg[m.rpc_method_name] = m
            /\ \A n \in AncestorNames(c) \ OwnNames(c) :
                  /\ n \in DOMAIN reg
                  /\ \E a \in Ancestors(c) :
                        /\ n \in DOMAIN classes[a].rpc_methods
                        /\ reg[n] = classes[a].rpc_methods[n]
                  /\ Len(classes[c].bases) = 1 =>
                        reg[n] = classes[classes[c].bases[1]].rpc_methods[n]
            /\ DOMAIN reg = OwnNames(c) \cup AncestorNames(c)

\* A class declares f again over a base that has f and f resolves to the
\* class's own method, system.describe still to the ancestor's; and a class
\* that does not declare f keeps the f of its base.
C12_Witness ==
    /\ \E c \in Defined :
          /\ Len(classes[c].bases) = 1
          /\ LET b == classes[c].bases[1]
             IN  /\ b \in Defined
                 /\ "f" \in DOMAIN classes[b].rpc_methods
                 /\ OwnNames(c) = {"f"}
                 /\ classes[c].rpc_methods["f"] = Member(c, "f")
                 /\ classes[c].rpc_methods["f"] # classes[b].rpc_methods["f"]
                 /\ classes[c].rpc_methods["system.describe"] = DescribeMethod
    /\ \E c \in Defined :
          /\ Len(classes[c].bases) = 1
          /\ LET b == classes[c].bases[1]
             IN  /\ b \in Defined
                 /\ OwnNames(b) = {"f"}
                 /\ OwnNames(c) = {}
                 /\ classes[c].rpc_methods["f"] = Member(b, "f")

----------------------------------------------------------------------------
(* C13                                                                     *)

\* The places in the __mro__ of c of the classes whose body declares n.
DeclaringPlaces(c, n) ==
    {i \in 1..Len(classes[c].mro) : n \in OwnNames(classes[c].mro[i])}

\* The method Python's attribute lookup would find for n on c: the one of
\* the earliest class of the __mro__ that declares n.
MostSpecific(c, n) ==
    LET i == CHOOSE k \in DeclaringPlaces(c, n) :
                 \A l \in DeclaringPlaces(c, n) : k <= l
    IN  CHOOSE m \in classes[classes[c].mro[i]].own : m.rpc_method_name = n

\* C13 as stated: the registry of a class is its ancestors' registries
\* applied in method resolution order, the most general first, and then
\* its own descriptors, so that a name several ancestors declare and the
\* class does not declare again resolves to the descriptor of the ancestor
\* that comes earliest in the class's method resolution order.
C13_MostSpecificAncestorWins ==
    \A c \in Defined :
        \A n \in DOMAIN classes[c].rpc_methods :
            (n \notin OwnNames(c) /\ Cardinality(DeclaringPlaces(c, n)) > 1) =>
                classes[c].rpc_methods[n] = MostSpecific(c, n)

----------------------------------------------------------------------------
(* C14                                                                     *)

\* The text matches SIG_RE and its argument list has a required param
\* after an optional one, every piece up to that param matching ARG_RE.
RequiredAfterOptional(sig) ==
    /\ sig.form = "ok"
    /\ \E k \in 1..Len(sig.args) :
          /\ \A j \in 1..k : sig.args[j].form = "ok"
          /\ ~sig.args[k].optional
          /\ \E i \in 1..(k - 1) : sig.args[i].optional

\* C14: a signature whose argument list has a required param after an
\* optional one is refused with the error of the ordering rule, not with
\* one of the syntax errors; and the params of every signature that is
\* parsed are the pieces of the argument list in the order written, each
\* with its name, type and optional flag, no required param after an
\* optional one.
C14_OrderingRule ==
    decorated # NotDecorated =>
        /\ RequiredAfterOptional(signature) =>
              /\ ~decorated.ok
              /\ decorated.exc = ParamsOrderError
              /\ decorated.exc \notin {SignatureSyntaxError, ParamsSyntaxError}
        /\ decorated.ok =>
              LET ps == decorated.value.rpc_params
                  args == signature.args
              IN  /\ Len(ps) = Len(args)
                  /\ \A i \in 1..Len(ps) :
                        ps[i] = Param(args[i].name, args[i].type, args[i].optional)
                  /\ \A i \in 1..Len(ps) : \A k \in 1..Len(ps) :
                        (i < k /\ ps[i].optional) => ps[k].optional

\* ``proc(a=<num>?, b=<str>) -> <num>`` was refused with the ordering error.
C14_Witness ==
    /\ signature =
          SignatureText("ok", "proc",
                        <<ArgText("ok", "a", "num", TRUE), ArgText("ok", "b", "str", FALSE)>>,
                        "num")
    /\ ~decorated.ok
    /\ decorated.exc = ParamsOrderError

----------------------------------------------------------------------------
(* C18                                                                     *)

\* C18 as stated: every type tag of a method that jrpc has decorated, the
\* type of each param and the return type, is one of bit, num, str, arr,
\* obj, nil, any, a signature with another tag being refused by jrpc; so
\* _valid_params never meets a tag that JSONType does not know.
C18_DeclaredTagsAreTypeTags ==
    decorated.ok =>
        /\ decorated.value.return_type \in TypeTags
        /\ \A i \in 1..Len(decorated.value.rpc_params) :
              decorated.value.rpc_params[i].type \in TypeTags
        /\ \A v \in SomeValues :
              LET r == ValidParams(decorated.value.rpc_params,
                                   ListParams([i \in 1..Len(decorated.value.rpc_params) |-> v]))
              IN  r.ok \/ r.exc.rpc

----------------------------------------------------------------------------
(* C15                                                                     *)

\* A request for system.describe that passes every stage ahead of the
\* call: a usable id, version 2.0, empty params, sent by POST or to a
\* service that allows GET, and let through by the hook.
DescribeRequest ==
    /\ GoodUpToMethod
    /\ request.json.method.v = "system.describe"
    /\ request.json.params \in {ListParams(<<>>), DictParams(EmptyMap)}
    /\ request.method = "POST" \/ cfg.can_get
    /\ hook = "passed"

\* C15 as stated: system.describe takes no argument, and a valid request
\* naming it with empty params succeeds on every service, whether or not
\* the service gives the request object to its methods, with a result that
\* holds the service's metadata and, as procs, exactly the descriptions of
\* the registered methods whose describe flag is set.
C15_DescribeAnswersOnEveryService ==
    (Ended /\ DescribeRequest) =>
        /\ pc = "responded"
        /\ HasResult
        /\ response.result.sdversion = "1.0"
        /\ response.result.procs =
              {Description(rpc_methods[n]) :
                  n \in {k \in DOMAIN rpc_methods : rpc_methods[k].describe}}

----------------------------------------------------------------------------
(* C17                                                                     *)

\* What C17 lists as the success of the stages ahead of the call, read off
\* the request: the envelope is a JSON object, the id is a non-empty string
\* or an integer, the version is "2.0", the method is the name of a
\* registered method that the transport may reach, the params are an array
\* or an object, the hook let the request through and the params are valid
\* for the method.
EveryEarlierStagePassed ==
    /\ Decoded
    /\ \/ request.json.id.t = "unicode" /\ request.json.id.v # ""
       \/ request.json.id.t \in {"int", "long"}
    /\ request.json.jsonrpc = JStr("2.0")
    /\ request.json.method.t = "unicode"
    /\ request.json.method.v \in DOMAIN rpc_methods
    /\ \/ request.method = "POST"
       \/ cfg.can_get
       \/ rpc_methods[request.json.method.v].rpc_safe
    /\ ParamsIsContainer
    /\ hook = "passed"
    /\ ValidParams(rpc_methods[request.json.method.v].rpc_params,
                   request.json.params).ok

\* C17 as stated: in one call the handler is invoked at most once and only
\* after every earlier stage has succeeded, so a request that fails an
\* earlier stage never reaches the handler; and no stage runs twice.
C17_HandlerOnceAfterEveryStage ==
    /\ Len(calls) <= 1
    /\ \A i \in 1..Len(trace) : \A k \in 1..Len(trace) :
          i # k => trace[i] # trace[k]
    /\ calls # <<>> =>
          /\ EveryEarlierStagePassed
          /\ trace = StageOrder

----------------------------------------------------------------------------
(* C16                                                                     *)

\* A step leaves the registry the instance reads, and the class record of
\* every class there is, as they were.
RegistriesKept ==
    /\ rpc_methods' = rpc_methods
    /\ \A n \in DOMAIN classes : classes'[n] = classes[n]

\* A call that is over ended as __call__ ends for its request alone, on the
\* registry the Service class was defined with.
EndedAsAlone(ctx) ==
    ctx.pc \in {"responded", "raised"} =>
        Outcome(ctx.pc, ctx.response, ctx.raised)
            = SoloCall(cfg, ServiceMethods(cfg.provide_request), ctx.request, ctx.hook)

\* C16: no step of a call, in any interleaving of concurrent calls and
\* whether the calls succeed or fail, changes an entry of the registry, and
\* the definition of a subclass leaves the registry of every class there
\* was unchanged; each call's response is the one its request gets on the
\* registry when no other call is in flight.
C16_RegistryNeverChanges ==
    /\ [][RegistriesKept]_vars
    /\ [](EndedAsAlone(Context) /\ \A i \in 1..Len(parked) : EndedAsAlone(parked[i]))

\* A call of add is answered with a result while another call waits inside
\* _dispatch and after a subclass with its own add was defined.
C16_Witness ==
    /\ "Sub" \in DOMAIN classes
    /\ pc = "responded"
    /\ HasResult
    /\ request.json.method.v = "add"
    /\ response.result = JInt("sum")
    /\ \E i \in 1..Len(parked) :
          /\ parked[i].pc = "validate"
          /\ parked[i].request.json.method.v = "add"

====
